---- MODULE Spec2Model ----
(***************************************************************************)
(* A model of astrbot_plugin_serverinfo (src/main.py): the byte formatter, *)
(* the plugin-status report, the CPU sampler with its cached sample, the   *)
(* server report builder and the chat command handlers.                    *)
(*                                                                         *)
(* Conventions.                                                            *)
(*  - A Python str is a sequence of one-character strings.  A character    *)
(*    outside ASCII is written by its code point ("U+670D" is one          *)
(*    character).                                                          *)
(*  - A Python int that may exceed 32 bits (a byte count) is a record      *)
(*    [neg, digits]: sign and base-1024 digits, least significant first,   *)
(*    no leading zero digit; zero is [neg |-> FALSE, digits |-> <<>>].     *)
(*  - A Python float that the code only ever obtains as n / 1024^k is the  *)
(*    exact rational; the CPU percentage used / d_total * 100 is the exact *)
(*    rational [num |-> 100 * used, den |-> d_total] (float rounding is    *)
(*    not modelled).                                                       *)
(***************************************************************************)
EXTENDS Integers, Sequences, FiniteSets, TLC

VARIABLES
    fmt,              \* _format_bytes: the argument and, once called, the result
    stars,            \* context.get_all_stars(): the sibling plugin entries
    plug,             \* _plugins_info_text: the last report built from stars
    _last_cpu_stat,   \* ServerInfoPlugin._last_cpu_stat
    last,             \* the last handler run: its input, what it read, its responses
    history,          \* CPU-percent queries so far: which stored a sample, the last sample read
    pc,               \* per invocation: position in its handler (interleaving model)
    loop,             \* the invocation holding the event-loop thread, or NoInv
    curr,             \* per invocation: the local curr of _get_cpu_percent
    accessor,         \* the invocation that last read or wrote _last_cpu_stat
    writes            \* the samples written to _last_cpu_stat, in order

vars == <<fmt, stars, plug, _last_cpu_stat, last, history, pc, loop, curr, accessor, writes>>

(***************************************************************************)
(* Strings                                                                 *)
(***************************************************************************)
Upper == <<"A","B","C","D","E","F","G","H","I","J","K","L","M",
           "N","O","P","Q","R","S","T","U","V","W","X","Y","Z">>
Lower == <<"a","b","c","d","e","f","g","h","i","j","k","l","m",
           "n","o","p","q","r","s","t","u","v","w","x","y","z">>

\* The rank of a character in code-point order, for the characters of the model.
CodeOrder == <<" ", "(", ")", "-", "/">> \o Upper \o <<"_">> \o Lower

Whitespace == {" ", "\t", "\n"}

IndexIn(seq, c) == CHOOSE i \in 1..Len(seq) : seq[i] = c

InSeq(seq, c) == \E i \in 1..Len(seq) : seq[i] = c

\* str.lower() on one character
LowerChar(c) == IF InSeq(Upper, c) THEN Lower[IndexIn(Upper, c)] ELSE c

\* str.lower()
lower(s) == [i \in 1..Len(s) |-> LowerChar(s[i])]

RECURSIVE lstrip(_)
lstrip(s) == IF s # <<>> /\ Head(s) \in Whitespace THEN lstrip(Tail(s)) ELSE s

RECURSIVE rstrip(_)
rstrip(s) ==
    IF s # <<>> /\ s[Len(s)] \in Whitespace THEN rstrip(SubSeq(s, 1, Len(s) - 1)) ELSE s

\* str.strip()
strip(s) == rstrip(lstrip(s))

\* str.startswith("/")
startswith_slash(s) == s # <<>> /\ Head(s) = "/"

\* s < t for Python strings (code-point lexicographic order)
RECURSIVE StrLess(_, _)
StrLess(s, t) ==
    IF t = <<>> THEN FALSE
    ELSE IF s = <<>> THEN TRUE
    ELSE IF Head(s) = Head(t) THEN StrLess(Tail(s), Tail(t))
    ELSE IndexIn(CodeOrder, Head(s)) < IndexIn(CodeOrder, Head(t))

(***************************************************************************)
(* Byte counts and _format_bytes                                           *)
(***************************************************************************)
Base == 1024

units == <<"B", "KB", "MB", "GB", "TB">>

Zero == [neg |-> FALSE, digits |-> <<>>]

\* A small non-negative model integer as a byte count.
RECURSIVE ToDigits(_)
ToDigits(k) == IF k = 0 THEN <<>> ELSE <<k % Base>> \o ToDigits(k \div Base)

ToBytes(k) == [neg |-> FALSE, digits |-> ToDigits(k)]

\* max(0, n)
Max0Unclamped(n) == n
Max0(n) == IF n.neg THEN Zero ELSE n

\* digits * 10, in base-1024 long arithmetic
RECURSIVE MulSmall(_, _, _)
MulSmall(digits, m, carry) ==
    IF digits = <<>>
    THEN (IF carry = 0 THEN <<>> ELSE <<carry>>)
    ELSE LET p == Head(digits) * m + carry
         IN  <<p % Base>> \o MulSmall(Tail(digits), m, p \div Base)

\* digits + 1
RECURSIVE Increment(_)
Increment(digits) ==
    IF digits = <<>> THEN <<1>>
    ELSE IF Head(digits) + 1 < Base THEN <<Head(digits) + 1>> \o Tail(digits)
    ELSE <<0>> \o Increment(Tail(digits))

\* The while loop of _format_bytes.  size is [neg, digits] / 1024^idx; with the
\* divisions so far, size >= 1024 exactly when more than idx + 1 digits remain.
LoopBound == Len(units) - 1

RECURSIVE FormatLoop(_, _)
FormatLoop(size, idx) ==
    IF ~size.neg /\ Len(size.digits) - idx >= 2 /\ idx < LoopBound
    THEN FormatLoop(size, idx + 1)
    ELSE idx

\* f"{size:.1f}" for size = digits / 1024^idx: the number of tenths, rounded
\* half-to-even on the exact value (the float is exact, so is the rounding).
Tenths(digits, idx) ==
    LET t     == MulSmall(digits, 10, 0)
        whole == IF Len(t) > idx THEN SubSeq(t, idx + 1, Len(t)) ELSE <<>>
        rem   == [i \in 1..idx |-> IF i <= Len(t) THEN t[i] ELSE 0]
        lowNZ == \E i \in 1..(idx - 1) : rem[i] # 0
        odd   == whole # <<>> /\ whole[1] % 2 = 1
        up    == /\ idx > 0
                 /\ \/ rem[idx] > Base \div 2
                    \/ rem[idx] = Base \div 2 /\ (lowNZ \/ odd)
    IN  IF up THEN Increment(whole) ELSE whole

_format_bytes(n) ==
    LET size == Max0(n)
        idx  == FormatLoop(size, 0)
    IN  [neg |-> size.neg, tenths |-> Tenths(size.digits, idx), idx |-> idx,
         unit |-> units[idx + 1]]

(***************************************************************************)
(* The byte formatter applied to a byte count                              *)
(***************************************************************************)
MaxDigits == 6

DigitSamples == {0, 1, 511, 512, 1023}

NoOutput == [neg |-> FALSE, tenths |-> <<>>, idx |-> 0, unit |-> ""]

FmtIdle == [n |-> Zero, called |-> FALSE, out |-> NoOutput]

\* The argument: an integer of at most MaxDigits base-1024 digits over DigitSamples.
InitFormat ==
    \E len \in 0..MaxDigits :
        \E digits \in [1..len -> DigitSamples], neg \in BOOLEAN :
            /\ len > 0 => digits[len] # 0
            /\ neg => len > 0
            /\ fmt = [n |-> [neg |-> neg, digits |-> digits], called |-> FALSE, out |-> NoOutput]

FormatBytes ==
    /\ ~fmt.called
    /\ fmt' = [fmt EXCEPT !.called = TRUE, !.out = _format_bytes(fmt.n)]

(***************************************************************************)
(* _plugins_info_text                                                      *)
(*                                                                         *)
(* A sibling plugin entry is [name, version, has_activated, activated];    *)
(* has_activated = FALSE is an entry without the attribute.  A report line *)
(* is [kind, a, b, name, version]:                                         *)
(*   "counts"          f"插件状态：启用 {a} / 总计 {b}"                    *)
(*   "label_enabled"   "已启用插件："                                      *)
(*   "none"            "- 无"                                              *)
(*   "label_disabled"  "未启用插件："                                      *)
(*   "item"            f"- {name} ({version})"                             *)
(***************************************************************************)
Line(kind, a, b, name, version) ==
    [kind |-> kind, a |-> a, b |-> b, name |-> name, version |-> version]

TextLine(kind) == Line(kind, 0, 0, <<>>, <<>>)

ItemLine(s) == Line("item", 0, 0, s.name, s.version)

\* getattr(s, "activated", False)
getattr_activated(s) == s.has_activated /\ s.activated

\* [s for s in stars if pred(s)]
RECURSIVE Filter(_, _)
Filter(seq, keep) ==
    IF seq = <<>> THEN <<>>
    ELSE (IF keep[1] THEN <<Head(seq)>> ELSE <<>>)
         \o Filter(Tail(seq), Tail(keep))

\* key=lambda x: str(getattr(x, "name", "")).lower()
SortKeyCaseSensitive(s) == s.name
SortKey(s) == lower(s.name)

\* sorted(seq, key=SortKey): stable, ascending
RECURSIVE sorted(_)
sorted(seq) ==
    IF seq = <<>> THEN <<>>
    ELSE LET front == sorted(SubSeq(seq, 1, Len(seq) - 1))
             x     == seq[Len(seq)]
             \* x goes after every element whose key is <= its own
             n     == Cardinality({i \in 1..Len(front) : ~StrLess(SortKey(x), SortKey(front[i]))})
         IN  SubSeq(front, 1, n) \o <<x>> \o SubSeq(front, n + 1, Len(front))

_plugins_info_text(all_stars) ==
    LET enabled  == Filter(all_stars, [i \in 1..Len(all_stars) |-> getattr_activated(all_stars[i])])
        disabled == Filter(all_stars, [i \in 1..Len(all_stars) |-> ~getattr_activated(all_stars[i])])
        sortedE  == sorted(enabled)
        sortedD  == sorted(disabled)
    IN  <<Line("counts", Len(enabled), Len(all_stars), <<>>, <<>>), TextLine("label_enabled")>>
        \o (IF enabled # <<>>
            THEN [i \in 1..Len(sortedE) |-> ItemLine(sortedE[i])]
            ELSE <<TextLine("none")>>)
        \o (IF disabled # <<>>
            THEN <<TextLine("label_disabled")>> \o [i \in 1..Len(sortedD) |-> ItemLine(sortedD[i])]
            ELSE <<>>)

(***************************************************************************)
(* The plugin-status report built from a list of sibling plugin entries    *)
(***************************************************************************)
MaxStars == 3

NameSamples == {<<"a">>, <<"B">>, <<"A", "b">>, <<"b", "a">>}

StarEntries ==
    {[name |-> nm, version |-> <<"1">>, has_activated |-> TRUE, activated |-> act] :
        nm \in NameSamples, act \in BOOLEAN}
    \cup {[name |-> nm, version |-> <<"1">>, has_activated |-> FALSE, activated |-> FALSE] :
        nm \in NameSamples}

RECURSIVE StarLists(_)
StarLists(len) ==
    IF len = 0 THEN {<<>>}
    ELSE {<<e>> \o l : e \in StarEntries, l \in StarLists(len - 1)}

\* The plugin list of the command model: three plugins, two activated.
SomeStars ==
    << [name |-> <<"b", "a">>, version |-> <<"1">>, has_activated |-> TRUE, activated |-> TRUE],
       [name |-> <<"B">>, version |-> <<"1">>, has_activated |-> TRUE, activated |-> FALSE],
       [name |-> <<"A", "b">>, version |-> <<"1">>, has_activated |-> TRUE, activated |-> TRUE] >>

PlugIdle == [built |-> FALSE, lines |-> <<>>]

InitPlugins ==
    /\ stars \in UNION {StarLists(len) : len \in 0..MaxStars}
    /\ plug = PlugIdle

PluginsInfoText ==
    /\ ~plug.built
    /\ plug' = [built |-> TRUE, lines |-> _plugins_info_text(stars)]
    /\ UNCHANGED stars

(***************************************************************************)
(* _get_cpu_percent                                                        *)
(*                                                                         *)
(* What open("/proc/stat") gives at one read is [readable, label, values,  *)
(* numeric]: whether the file opens, the first token of its first line     *)
(* ("" for an empty line), the tokens after it, and whether int() accepts  *)
(* them all (the values are then these integers).                          *)
(* A sample, and _last_cpu_stat, is [some, total, idle]; None is NoStat.   *)
(***************************************************************************)
NoStat == [some |-> FALSE, total |-> 0, idle |-> 0]

Sample(total, idle) == [some |-> TRUE, total |-> total, idle |-> idle]

RECURSIVE Sum(_)
Sum(seq) == IF seq = <<>> THEN 0 ELSE Head(seq) + Sum(Tail(seq))

Max(a, b) == IF a >= b THEN a ELSE b

\* _read_cpu_stat(): status "ok" with the sample, "none" (returns None) or
\* "raise" (open() or int() raises).
_read_cpu_stat(f) ==
    LET nparts == (IF f.label = "" THEN 0 ELSE 1) + Len(f.values)
        fail(why) == [status |-> why, total |-> 0, idle |-> 0]
    IN  IF ~f.readable THEN fail("raise")
        ELSE IF nparts < 5 \/ f.label # "cpu" THEN fail("none")
        ELSE IF ~f.numeric THEN fail("raise")
        ELSE [status |-> "ok",
              total  |-> Sum(f.values),
              idle   |-> f.values[4] + (IF Len(f.values) > 4 THEN f.values[5] ELSE 0)]

AsSample(r) == Sample(r.total, r.idle)

Unavailable == [avail |-> FALSE, num |-> 0, den |-> 1]

\* if d_total <= 0: return None
CounterDidNotAdvanceStrict(d_total) == d_total < 0
CounterDidNotAdvance(d_total) == d_total <= 0

\* Lines 107-112: the percentage from the previous and the current sample.
Percent(prev, cur) ==
    LET d_total == cur.total - prev.total
        d_idle  == cur.idle - prev.idle
        used    == Max(0, d_total - d_idle)
    IN  IF CounterDidNotAdvance(d_total) THEN Unavailable
        ELSE [avail |-> TRUE, num |-> used * 100, den |-> d_total]

\* What one query does: ret is the value returned, stat the value of
\* _last_cpu_stat after it, stored whether it assigned _last_cpu_stat,
\* nreads how many times it read the counters, slept whether it slept.
QueryResult(ret, stat, stored, nreads, slept) ==
    [ret |-> ret, stat |-> stat, stored |-> stored, nreads |-> nreads, slept |-> slept]

\* A cold query that stores the first sample instead of the second.
_get_cpu_percent_stores_first(stat, f1, f2) ==
    LET c == _read_cpu_stat(f1)
        n == _read_cpu_stat(f2)
    IN  IF c.status # "ok" THEN QueryResult(Unavailable, stat, FALSE, 1, FALSE)
        ELSE IF ~stat.some
        THEN IF n.status # "ok" THEN QueryResult(Unavailable, stat, FALSE, 2, TRUE)
             ELSE QueryResult(Percent(AsSample(c), AsSample(n)), AsSample(c), TRUE, 2, TRUE)
        ELSE QueryResult(Percent(stat, AsSample(c)), AsSample(c), TRUE, 1, FALSE)

\* A query that stores the sample it read before it checks the second read.
_get_cpu_percent_stores_early(stat, f1, f2) ==
    LET c == _read_cpu_stat(f1)
        n == _read_cpu_stat(f2)
    IN  IF c.status # "ok" THEN QueryResult(Unavailable, stat, FALSE, 1, FALSE)
        ELSE IF ~stat.some
        THEN IF n.status # "ok" THEN QueryResult(Unavailable, AsSample(c), TRUE, 2, TRUE)
             ELSE QueryResult(Percent(AsSample(c), AsSample(n)), AsSample(n), TRUE, 2, TRUE)
        ELSE QueryResult(Percent(stat, AsSample(c)), AsSample(c), TRUE, 1, FALSE)

\* _get_cpu_percent with self._last_cpu_stat = stat; f1 and f2 are what the
\* first and (in a cold query) the second read of /proc/stat find.  Any
\* exception is caught by the except clause, which returns None.
_get_cpu_percent(stat, f1, f2) ==
    LET c == _read_cpu_stat(f1)
        n == _read_cpu_stat(f2)
    IN  IF c.status # "ok" THEN QueryResult(Unavailable, stat, FALSE, 1, FALSE)
        ELSE IF ~stat.some
        THEN IF n.status # "ok" THEN QueryResult(Unavailable, stat, FALSE, 2, TRUE)
             ELSE QueryResult(Percent(AsSample(c), AsSample(n)), AsSample(n), TRUE, 2, TRUE)
        ELSE QueryResult(Percent(stat, AsSample(c)), AsSample(c), TRUE, 1, FALSE)

StatFile(readable, label, values, numeric) ==
    [readable |-> readable, label |-> label, values |-> values, numeric |-> numeric]

\* "cpu 30 10 10 40 10 ...": total 100, idle 50, and so on.
GoodStatFiles ==
    { StatFile(TRUE, "cpu", <<30, 10, 10, 40, 10>>, TRUE),     \* (100, 50)
      StatFile(TRUE, "cpu", <<70, 20, 20, 70, 20>>, TRUE),     \* (200, 90)
      StatFile(TRUE, "cpu", <<150, 10, 0, 30, 10>>, TRUE),     \* (200, 40): iowait fell
      StatFile(TRUE, "cpu", <<20, 10, 10, 60>>, TRUE),         \* (100, 60): no iowait column
      StatFile(TRUE, "cpu", <<60, 20, 10, 100, 20>>, TRUE) }   \* (210, 120)

BadStatFiles ==
    { StatFile(FALSE, "", <<>>, TRUE),                         \* open() raises
      StatFile(TRUE, "", <<>>, TRUE),                          \* empty first line
      StatFile(TRUE, "cpu", <<1, 2, 3>>, TRUE),                \* too few columns
      StatFile(TRUE, "intr", <<1, 2, 3, 4, 5>>, TRUE),         \* not the cpu line
      StatFile(TRUE, "cpu", <<1, 2, 3, 4, 5>>, FALSE) }        \* a column int() rejects

StatFiles == GoodStatFiles \cup BadStatFiles

\* Stands for the second read of a query that reads once.
NotRead == StatFile(FALSE, "", <<>>, TRUE)

(***************************************************************************)
(* The other metric sources and _server_info_text                          *)
(*                                                                         *)
(* A line of the server report is [kind, sizes, pct]: sizes are the        *)
(* _format_bytes results it shows, pct the percentage it shows.            *)
(***************************************************************************)
SLine(kind, sizes, pct) == [kind |-> kind, sizes |-> sizes, pct |-> pct]

NoPct == [avail |-> FALSE, num |-> 0, den |-> 1]

\* Lines 43-49: the heading and the host facts, which no source can fail.
HeaderLines ==
    [i \in 1..7 |->
        SLine(<<"header", "hostname", "platform", "python", "pid", "uptime", "cpu_count">>[i],
              <<>>, NoPct)]

\* /proc/meminfo: [readable, has_total, total_kb, has_avail, avail_kb, numeric]
MemInfo(readable, has_total, total_kb, has_avail, avail_kb, numeric) ==
    [readable |-> readable, has_total |-> has_total, total_kb |-> total_kb,
     has_avail |-> has_avail, avail_kb |-> avail_kb, numeric |-> numeric]

MemResult(raised, some, used, total) ==
    [raised |-> raised, some |-> some, used |-> used, total |-> total]

\* The accessor without its try/except: a failing read propagates.
_get_system_memory_bytes_no_try(m) ==
    IF ~m.readable \/ ~m.numeric THEN MemResult(TRUE, FALSE, 0, 0)
    ELSE IF ~m.has_total \/ ~m.has_avail THEN MemResult(FALSE, FALSE, 0, 0)
    ELSE MemResult(FALSE, TRUE, Max(0, (m.total_kb - m.avail_kb) * 1024), m.total_kb * 1024)

_get_system_memory_bytes(m) ==
    IF ~m.readable \/ ~m.numeric THEN MemResult(FALSE, FALSE, 0, 0)
    ELSE IF ~m.has_total \/ ~m.has_avail THEN MemResult(FALSE, FALSE, 0, 0)
    ELSE MemResult(FALSE, TRUE, Max(0, (m.total_kb - m.avail_kb) * 1024), m.total_kb * 1024)

\* /proc/self/status: [readable, has_vmrss, kb, numeric]
ProcStatus(readable, has_vmrss, kb, numeric) ==
    [readable |-> readable, has_vmrss |-> has_vmrss, kb |-> kb, numeric |-> numeric]

_get_process_rss_bytes(r) ==
    IF ~r.readable THEN [some |-> FALSE, bytes |-> 0]
    ELSE IF ~r.has_vmrss THEN [some |-> FALSE, bytes |-> 0]
    ELSE IF ~r.numeric THEN [some |-> FALSE, bytes |-> 0]
    ELSE [some |-> TRUE, bytes |-> r.kb * 1024]

\* os.getloadavg: [has_attr, ok]; os.statvfs("."): [ok, f_frsize, f_blocks, f_bavail]
LoadAvg(has_attr, ok) == [has_attr |-> has_attr, ok |-> ok]

StatVfs(ok, f_frsize, f_blocks, f_bavail) ==
    [ok |-> ok, f_frsize |-> f_frsize, f_blocks |-> f_blocks, f_bavail |-> f_bavail]

\* Lines 50-52
CpuLines(q) == IF q.ret.avail THEN <<SLine("cpu", <<>>, q.ret)>> ELSE <<>>

\* Lines 53-57
MemLines(mem) ==
    IF mem.some /\ mem.total # 0
    THEN <<SLine("mem", <<_format_bytes(ToBytes(mem.used)), _format_bytes(ToBytes(mem.total))>>,
                 [avail |-> TRUE, num |-> mem.used * 100, den |-> mem.total])>>
    ELSE <<>>

\* Lines 58-60
RssLines(rss) ==
    IF rss.some THEN <<SLine("rss", <<_format_bytes(ToBytes(rss.bytes))>>, NoPct)>> ELSE <<>>

\* Lines 61-66
LoadLines(l) == IF l.has_attr /\ l.ok THEN <<SLine("load", <<>>, NoPct)>> ELSE <<>>

\* Lines 67-74
DiskLines(d) ==
    IF d.ok
    THEN LET total == d.f_frsize * d.f_blocks
             free  == d.f_frsize * d.f_bavail
             used  == Max(0, total - free)
         IN  <<SLine("disk", <<_format_bytes(ToBytes(used)), _format_bytes(ToBytes(total))>>, NoPct)>>
    ELSE <<>>

\* _server_info_text, given the result q of its call of _get_cpu_percent and
\* what the other sources give.  raised: an exception leaves the function.
_server_info_text(q, m, r, l, d) ==
    LET mem == _get_system_memory_bytes(m)
        rss == _get_process_rss_bytes(r)
    IN  IF mem.raised THEN [raised |-> TRUE, lines |-> <<>>]
        ELSE [raised |-> FALSE,
              lines  |-> HeaderLines \o CpuLines(q) \o MemLines(mem) \o RssLines(rss)
                         \o LoadLines(l) \o DiskLines(d)]

MemInfos ==
    { MemInfo(FALSE, FALSE, 0, FALSE, 0, TRUE),       \* open() raises
      MemInfo(TRUE, TRUE, 1000, FALSE, 0, TRUE),      \* no MemAvailable line
      MemInfo(TRUE, TRUE, 1000, TRUE, 400, FALSE),    \* a value int() rejects
      MemInfo(TRUE, TRUE, 1000, TRUE, 400, TRUE),
      MemInfo(TRUE, TRUE, 1000, TRUE, 1200, TRUE) }

ProcStatuses ==
    { ProcStatus(FALSE, FALSE, 0, TRUE),
      ProcStatus(TRUE, FALSE, 0, TRUE),
      ProcStatus(TRUE, TRUE, 2048, TRUE) }

LoadAvgs == { LoadAvg(FALSE, FALSE), LoadAvg(TRUE, FALSE), LoadAvg(TRUE, TRUE) }

StatVfss == { StatVfs(FALSE, 0, 0, 0), StatVfs(TRUE, 4096, 100, 40) }

(***************************************************************************)
(* The command handlers                                                    *)
(***************************************************************************)
S_server_cn  == <<"U+670D", "U+52A1", "U+5668">>                       \* 服务器
S_plugins_cn == <<"U+63D2", "U+4EF6">>                                 \* 插件
S_serverinfo_cn == S_server_cn \o <<"U+4FE1", "U+606F">>               \* 服务器信息
S_pluginstate_cn == S_plugins_cn \o <<"U+72B6", "U+6001">>             \* 插件状态

ServerSubs == { <<>>, <<"i","n","f","o">>, <<"s","e","r","v","e","r">>, S_server_cn }
PluginSubs == { <<"p","l","u","g","i","n","s">>, <<"p","l","u","g","i","n">>, <<"p","l">>,
                S_plugins_cn }
AllSubs    == { <<"a","l","l">>, <<"f","u","l","l">> }

\* The args parameter: a str, or None.
Arg(s) == [isNone |-> FALSE, s |-> s]
ArgNone == [isNone |-> TRUE, s |-> <<>>]

\* sub = (args or "").strip().lower()
SubOfNoLower(args) == strip(IF args.isNone THEN <<>> ELSE args.s)
SubOf(args) == lower(strip(IF args.isNone THEN <<>> ELSE args.s))

\* serverinfo, lines 191-200: which response the sub-argument selects.
RouteOfServerinfo(sub) ==
    IF sub \in ServerSubs THEN "server"
    ELSE IF sub \in PluginSubs THEN "plugins"
    ELSE IF sub \in AllSubs THEN "all"
    ELSE "usage"

\* An attribute of the event, [kind, s]:
\*   "absent"    getattr gives None
\*   "str"       the str s
\*   "callable"  a callable that returns the str s
\*   "raises"    a callable that raises
\*   "object"    an object whose get_plain_text / to_plain_text gives s
Attr(kind, s) == [kind |-> kind, s |-> s]
Absent == Attr("absent", <<>>)

\* _get_event_text: event is the attributes message_str, plain_text,
\* raw_message, message, text in this order.
RECURSIVE _get_event_text(_)
_get_event_text(event) ==
    IF event = <<>> THEN <<>>
    ELSE LET val == Head(event)
         IN  IF val.kind \in {"str", "callable", "object"} /\ strip(val.s) # <<>>
             THEN strip(val.s)
             ELSE _get_event_text(Tail(event))

\* plain_cn_commands, lines 218-220, without the removal of a leading "/".
CommandTextKeepSlash(text) == strip(text)
CommandText(text) ==
    LET t == strip(text)
    IN  IF startswith_slash(t) THEN strip(Tail(t)) ELSE t

\* plain_cn_commands, lines 215-226: which response the message selects.
RouteOfPlainCn(event) ==
    LET text == _get_event_text(event)
    IN  IF text = <<>> THEN "nothing"
        ELSE IF CommandText(text) = S_serverinfo_cn THEN "server"
        ELSE IF CommandText(text) = S_pluginstate_cn THEN "plugins"
        ELSE "nothing"

\* event.plain_result(...): what a response shows.
Response(kind, server, plugins) == [kind |-> kind, server |-> server, plugins |-> plugins]

\* The responses of a handler whose route builds no server report.
ResponsesWithoutServer(route) ==
    IF route = "plugins" THEN <<Response("plugins", <<>>, _plugins_info_text(stars))>>
    ELSE IF route = "usage" THEN <<Response("usage", <<>>, <<>>)>>
    ELSE <<>>

\* The responses of a handler whose route builds the server report text.
ResponsesWithServer(route, text) ==
    IF text.raised THEN <<>>
    ELSE IF route = "all"
    THEN <<Response("all", text.lines, _plugins_info_text(stars))>>
    ELSE <<Response("server", text.lines, <<>>)>>

ArgSamples ==
    { ArgNone, Arg(<<>>), Arg(<<" ", "\t">>),
      Arg(<<"i","n","f","o">>), Arg(<<" ","I","N","F","O","\n">>),
      Arg(<<"S","e","r","v","e","r">>), Arg(S_server_cn),
      Arg(<<"p","l","u","g","i","n","s">>), Arg(<<"P","L","U","G","I","N"," ">>),
      Arg(<<"p","l">>), Arg(<<" ">> \o S_plugins_cn),
      Arg(<<"a","l","l">>), Arg(<<"F","u","l","l">>),
      Arg(<<"h","e","l","p">>), Arg(<<"i","n"," ","f","o">>), Arg(<<"/","i","n","f","o">>),
      Arg(<<"i","n","f","o","s">>), Arg(S_serverinfo_cn), Arg(<<"A","L","L","L">>) }

\* An event whose message_str is s and which has no other text attribute.
Message(s) == <<Attr("str", s), Absent, Absent, Absent, Absent>>

EventSamples ==
    { Message(S_serverinfo_cn), Message(S_pluginstate_cn),
      Message(<<"/">> \o S_serverinfo_cn), Message(<<"/">> \o S_pluginstate_cn),
      Message(<<" ", "/", " ">> \o S_pluginstate_cn \o <<"\n">>),
      Message(<<" ">> \o S_serverinfo_cn \o <<" ">>),
      Message(<<"/", "/">> \o S_serverinfo_cn),
      Message(S_serverinfo_cn \o <<" ", "x">>),
      Message(<<"x">> \o S_pluginstate_cn),
      Message(<<"s","e","r","v","e","r","i","n","f","o">>),
      Message(<<"/">>), Message(<<>>), Message(<<" ">>),
      <<Attr("str", <<" ">>), Attr("callable", S_pluginstate_cn), Absent, Absent, Absent>>,
      <<Absent, Attr("raises", <<>>), Attr("object", <<"/">> \o S_serverinfo_cn), Absent, Absent>>,
      <<Absent, Absent, Attr("object", <<>>), Absent, Attr("str", <<"h","i">>)>> }

(***************************************************************************)
(* The plugin instance handling one command after another                  *)
(*                                                                         *)
(* last.phase is the position of the handler being run: "cpu" before its   *)
(* call of _get_cpu_percent (line 50), "metrics" after it (line 53),       *)
(* "done" once it has yielded its response or ended without one; "idle"    *)
(* when no handler runs.  last.before is _last_cpu_stat as the handler     *)
(* found it, last.f1 and last.f2 what its reads of /proc/stat found,       *)
(* last.cpu the result of its query and last.env the other sources.        *)
(***************************************************************************)
NoQuery == QueryResult(Unavailable, NoStat, FALSE, 0, FALSE)

NoEnv == [mem  |-> MemInfo(FALSE, FALSE, 0, FALSE, 0, TRUE),
          rss  |-> ProcStatus(FALSE, FALSE, 0, TRUE),
          load |-> LoadAvg(FALSE, FALSE),
          disk |-> StatVfs(FALSE, 0, 0, 0)]

LastIdle ==
    [phase |-> "idle", handler |-> "", args |-> ArgNone, event |-> <<>>, route |-> "nothing",
     before |-> NoStat, f1 |-> NotRead, f2 |-> NotRead, cpu |-> NoQuery, cpuDone |-> FALSE,
     env |-> NoEnv, raised |-> FALSE, responses |-> <<>>]

HistoryIdle == [warmed |-> FALSE, lastRead |-> NoStat]

\* __init__, lines 32-35
InitPlugin ==
    /\ _last_cpu_stat = NoStat
    /\ last = LastIdle
    /\ history = HistoryIdle

\* A handler is entered and runs up to its call of _get_cpu_percent, or to
\* its end when its route builds no server report.
Enter(handler, args, event, route) ==
    /\ last.phase = "idle"
    /\ last' = IF route \in {"server", "all"}
               THEN [LastIdle EXCEPT !.phase = "cpu", !.handler = handler, !.args = args,
                                     !.event = event, !.route = route,
                                     !.before = _last_cpu_stat]
               ELSE [LastIdle EXCEPT !.phase = "done", !.handler = handler, !.args = args,
                                     !.event = event, !.route = route,
                                     !.before = _last_cpu_stat,
                                     !.responses = ResponsesWithoutServer(route)]
    /\ UNCHANGED <<_last_cpu_stat, history>>

\* @filter.command("serverinfo")
serverinfo == \E args \in ArgSamples : Enter("serverinfo", args, <<>>, RouteOfServerinfo(SubOf(args)))

\* @filter.command("服务器信息")
serverinfo_cn == Enter("serverinfo_cn", ArgNone, <<>>, "server")

\* @filter.command("插件状态")
plugins_cn == Enter("plugins_cn", ArgNone, <<>>, "plugins")

\* @filter.event_message_type(ALL)
plain_cn_commands ==
    \E event \in EventSamples : Enter("plain_cn_commands", ArgNone, event, RouteOfPlainCn(event))

\* Line 50: cpu_percent = self._get_cpu_percent().  The second read happens
\* only in a query that reads twice.
CpuPercentQuery ==
    /\ last.phase = "cpu"
    /\ \E f1 \in StatFiles :
        \E f2 \in (IF _get_cpu_percent(_last_cpu_stat, f1, NotRead).nreads = 2
                    THEN StatFiles ELSE {NotRead}) :
            LET q == _get_cpu_percent(_last_cpu_stat, f1, f2)
            IN  /\ _last_cpu_stat' = q.stat
                /\ last' = [last EXCEPT !.phase = "metrics", !.before = _last_cpu_stat,
                                        !.f1 = f1, !.f2 = f2, !.cpu = q, !.cpuDone = TRUE]
                /\ history' = IF q.stored
                              THEN [warmed   |-> TRUE,
                                    lastRead |-> AsSample(_read_cpu_stat(IF q.nreads = 2 THEN f2 ELSE f1))]
                              ELSE history

\* Lines 53-75 and the handler's yield: the rest of the report and the response.
RestOfReport ==
    /\ last.phase = "metrics"
    /\ \E m \in MemInfos, r \in ProcStatuses, l \in LoadAvgs, d \in StatVfss :
        LET text == _server_info_text(last.cpu, m, r, l, d)
        IN  last' = [last EXCEPT !.phase = "done",
                                 !.env = [mem |-> m, rss |-> r, load |-> l, disk |-> d],
                                 !.raised = text.raised,
                                 !.responses = ResponsesWithServer(last.route, text)]
    /\ UNCHANGED <<_last_cpu_stat, history>>

\* The handler returns (its generator is exhausted); the plugin waits for
\* the next command.
HandlerReturns ==
    /\ last.phase = "done"
    /\ last' = LastIdle
    /\ UNCHANGED <<_last_cpu_stat, history>>

(***************************************************************************)
(* Report invocations on one event loop                                    *)
(*                                                                         *)
(* The handlers are coroutines of one event loop: an invocation runs from  *)
(* the moment the loop resumes it until it yields its response.  loop is   *)
(* the invocation running, NoInv when the loop is free.  pc[i]:            *)
(*   "idle"      not yet received                                          *)
(*   "ready"     received, its task waits for the loop                     *)
(*   "sleeping"  in a cold query, at time.sleep (line 96)                  *)
(*   "second"    in a cold query, before the second read (line 97)         *)
(*   "rest"      after _get_cpu_percent (line 53)                          *)
(*   "yielded"   suspended at its yield                                    *)
(*   "done"      returned                                                  *)
(***************************************************************************)
NumInv == 2

Invocations == 1..NumInv

NoInv == 0

InitLoop ==
    /\ pc = [i \in Invocations |-> "idle"]
    /\ loop = NoInv
    /\ curr = [i \in Invocations |-> NoStat]
    /\ accessor = NoInv
    /\ writes = <<>>

\* Who holds the event-loop thread while invocation i sleeps: asyncio.sleep
\* would free it, time.sleep (line 96) keeps it.
asyncio_sleep(i) == NoInv
time_sleep(i) == i

\* A message that selects a server report arrives.
Receive(i) ==
    /\ pc[i] = "idle"
    /\ pc' = [pc EXCEPT ![i] = "ready"]
    /\ UNCHANGED <<loop, curr, accessor, writes, _last_cpu_stat>>

\* Lines 91-95 and, in a warm query, 104-106: the first read, the test of
\* _last_cpu_stat and the warm replacement.
FirstRead(i) ==
    /\ pc[i] = "ready"
    /\ loop = NoInv
    /\ \E f \in StatFiles :
        LET c == _read_cpu_stat(f)
        IN  IF c.status # "ok"
            THEN /\ pc' = [pc EXCEPT ![i] = "rest"]
                 /\ UNCHANGED <<curr, accessor, writes, _last_cpu_stat>>
            ELSE IF ~_last_cpu_stat.some
            THEN /\ pc' = [pc EXCEPT ![i] = "sleeping"]
                 /\ curr' = [curr EXCEPT ![i] = AsSample(c)]
                 /\ accessor' = i
                 /\ UNCHANGED <<writes, _last_cpu_stat>>
            ELSE /\ pc' = [pc EXCEPT ![i] = "rest"]
                 /\ _last_cpu_stat' = AsSample(c)
                 /\ writes' = Append(writes, AsSample(c))
                 /\ accessor' = i
                 /\ UNCHANGED curr
    /\ loop' = i

\* Line 96
Sleep(i) ==
    /\ pc[i] = "sleeping"
    /\ loop = i
    /\ pc' = [pc EXCEPT ![i] = "second"]
    /\ loop' = time_sleep(i)
    /\ UNCHANGED <<curr, accessor, writes, _last_cpu_stat>>

\* Lines 97-102: the second read and the cold replacement.
SecondRead(i) ==
    /\ pc[i] = "second"
    /\ loop \in {i, NoInv}
    /\ \E f \in StatFiles :
        LET n == _read_cpu_stat(f)
        IN  IF n.status # "ok"
            THEN UNCHANGED <<accessor, writes, _last_cpu_stat>>
            ELSE /\ _last_cpu_stat' = AsSample(n)
                 /\ writes' = Append(writes, AsSample(n))
                 /\ accessor' = i
    /\ pc' = [pc EXCEPT ![i] = "rest"]
    /\ loop' = i
    /\ UNCHANGED curr

\* Lines 53-75 and the yield of the response, which frees the loop.
Yield(i) ==
    /\ pc[i] = "rest"
    /\ loop = i
    /\ pc' = [pc EXCEPT ![i] = "yielded"]
    /\ loop' = NoInv
    /\ UNCHANGED <<curr, accessor, writes, _last_cpu_stat>>

\* The generator is resumed and returns.
Return(i) ==
    /\ pc[i] = "yielded"
    /\ loop = NoInv
    /\ pc' = [pc EXCEPT ![i] = "done"]
    /\ UNCHANGED <<loop, curr, accessor, writes, _last_cpu_stat>>

(***************************************************************************)
(* Specifications                                                          *)
(***************************************************************************)
FormatUnused  == fmt = FmtIdle
PluginsUnused == stars = SomeStars /\ plug = PlugIdle

\* The plugin instance, one command after another.
Init == InitPlugin /\ InitLoop /\ FormatUnused /\ PluginsUnused

LoopVars == <<pc, loop, curr, accessor, writes>>

Next ==
    \/ serverinfo /\ UNCHANGED <<fmt, stars, plug, LoopVars>>
    \/ serverinfo_cn /\ UNCHANGED <<fmt, stars, plug, LoopVars>>
    \/ plugins_cn /\ UNCHANGED <<fmt, stars, plug, LoopVars>>
    \/ plain_cn_commands /\ UNCHANGED <<fmt, stars, plug, LoopVars>>
    \/ CpuPercentQuery /\ UNCHANGED <<fmt, stars, plug, LoopVars>>
    \/ RestOfReport /\ UNCHANGED <<fmt, stars, plug, LoopVars>>
    \/ HandlerReturns /\ UNCHANGED <<fmt, stars, plug, LoopVars>>

Spec == Init /\ [][Next]_vars

\* _format_bytes on a byte count.
InitF == InitFormat /\ InitPlugin /\ InitLoop /\ PluginsUnused

NextF ==
    /\ FormatBytes
    /\ UNCHANGED <<stars, plug, _last_cpu_stat, last, history, pc, loop, curr, accessor, writes>>

SpecFormat == InitF /\ [][NextF]_vars

\* _plugins_info_text on a list of sibling plugin entries.
InitP == InitPlugins /\ InitPlugin /\ InitLoop /\ FormatUnused

NextP ==
    /\ PluginsInfoText
    /\ UNCHANGED <<fmt, _last_cpu_stat, last, history, pc, loop, curr, accessor, writes>>

SpecPlugins == InitP /\ [][NextP]_vars

\* Report invocations sharing the plugin instance.
NextL ==
    \E i \in Invocations :
        \/ Receive(i) /\ UNCHANGED <<fmt, stars, plug, last, history>>
        \/ FirstRead(i) /\ UNCHANGED <<fmt, stars, plug, last, history>>
        \/ Sleep(i) /\ UNCHANGED <<fmt, stars, plug, last, history>>
        \/ SecondRead(i) /\ UNCHANGED <<fmt, stars, plug, last, history>>
        \/ Yield(i) /\ UNCHANGED <<fmt, stars, plug, last, history>>
        \/ Return(i) /\ UNCHANGED <<fmt, stars, plug, last, history>>

SpecLoop == Init /\ [][NextL]_vars

(***************************************************************************)
(* Properties                                                              *)
(***************************************************************************)
Min(a, b) == IF a <= b THEN a ELSE b

\* max(0, n) as digits, and the largest k with 1024^k <= max(0, n) (0 when there is none)
ClampedDigits(n) == IF n.neg THEN <<>> ELSE n.digits
LargestPower(digits) == IF digits = <<>> THEN 0 ELSE Len(digits) - 1

\* A number of tenths below 1024.0, and at most 1024.0
RenderedBelow1024(tenths) == Len(tenths) <= 1 \/ (Len(tenths) = 2 /\ tenths[2] < 10)
RenderedAtMost1024(tenths) == RenderedBelow1024(tenths) \/ tenths = <<0, 10>>

\* What claim C8 says of every call but the bound on the rendered magnitude.
FormatBytesUnitAndSign ==
    LET n   == fmt.n
        out == fmt.out
        k   == LargestPower(ClampedDigits(n))
    IN  /\ out.idx = Min(4, k)
        /\ out.unit = units[Min(4, k) + 1]
        /\ out.unit \in {"B", "KB", "MB", "GB", "TB"}
        /\ ~out.neg
        /\ n.neg => out = [neg |-> FALSE, tenths |-> <<>>, idx |-> 0, unit |-> "B"]
        \* before rounding, the magnitude max(0, n) / 1024^idx is below 1024
        /\ out.unit # "TB" => Len(ClampedDigits(n)) - out.idx <= 1
        \* 0 -> "0.0B", 1536 -> "1.5KB", 1024^4 -> "1.0TB"
        /\ n = Zero => out.tenths = <<>> /\ out.unit = "B"
        /\ n = ToBytes(1536) => out.tenths = <<15>> /\ out.unit = "KB"
        /\ n = [neg |-> FALSE, digits |-> <<0, 0, 0, 0, 1>>] => out.tenths = <<10>> /\ out.unit = "TB"

\* C8 (as amended): for every integer byte count n, _format_bytes treats a
\* negative n as 0 and selects the unit with index min(4, largest k with
\* 1024^k <= max(0, n)); the unit never exceeds TB, the rendered magnitude is
\* never negative, the magnitude before rounding is below 1024 for every unit
\* except TB, and the magnitude rendered with one decimal is at most 1024.0
\* for those units.
C8_FormatBytes ==
    fmt.called =>
        /\ FormatBytesUnitAndSign
        /\ fmt.out.unit # "TB" => RenderedAtMost1024(fmt.out.tenths)

\* C8 as stated: the rendered magnitude is below 1024 for every unit except TB.
C8_Original ==
    fmt.called =>
        /\ FormatBytesUnitAndSign
        /\ fmt.out.unit # "TB" => RenderedBelow1024(fmt.out.tenths)

\* 1048575 bytes are rendered "1024.0KB".
C8_Witness ==
    /\ fmt.called
    /\ fmt.n = [neg |-> FALSE, digits |-> <<1023, 1023>>]
    /\ fmt.out.tenths = <<0, 10>>
    /\ fmt.out.unit = "KB"

\* The item lines of a report between two positions
ItemsBetween(lines, from, to) ==
    LET idx == {i \in (from + 1)..(to - 1) : lines[i].kind = "item"}
        nth(k) == CHOOSE i \in idx : Cardinality({j \in idx : j <= i}) = k
    IN  [k \in 1..Cardinality(idx) |-> lines[nth(k)]]

PositionOf(lines, kind) ==
    IF \E i \in 1..Len(lines) : lines[i].kind = kind
    THEN CHOOSE i \in 1..Len(lines) : lines[i].kind = kind
    ELSE Len(lines) + 1

EnabledItems(lines) ==
    ItemsBetween(lines, PositionOf(lines, "label_enabled"), PositionOf(lines, "label_disabled"))

DisabledItems(lines) ==
    ItemsBetween(lines, PositionOf(lines, "label_disabled"), Len(lines) + 1)

CountWhere(seq, P(_)) == Cardinality({i \in 1..Len(seq) : P(seq[i])})

CaseInsensitiveAscending(items) ==
    \A i \in 1..(Len(items) - 1) : ~StrLess(lower(items[i + 1].name), lower(items[i].name))

\* What claim C5 says of every report but the presence of both labeled lists.
PluginReportGroups ==
    LET lines == plug.lines
        en    == EnabledItems(lines)
        dis   == DisabledItems(lines)
        IsOn(s)  == s.has_activated /\ s.activated
        IsOff(s) == ~IsOn(s)
    IN  /\ \A i \in 1..Len(stars) :
              LET Same(x) == x.name = stars[i].name /\ x.version = stars[i].version
                  SameOn(x) == Same(x) /\ IsOn(x)
                  SameOff(x) == Same(x) /\ IsOff(x)
              IN  /\ CountWhere(en, Same) = CountWhere(stars, SameOn)
                  /\ CountWhere(dis, Same) = CountWhere(stars, SameOff)
        /\ Len(en) + Len(dis) = Len(stars)
        /\ lines[1].kind = "counts"
        /\ lines[1].a = Len(en)
        /\ lines[1].b = Len(en) + Len(dis)
        /\ CaseInsensitiveAscending(en)
        /\ CaseInsensitiveAscending(dis)
        /\ lines[2].kind = "label_enabled"
        /\ (Len(en) = 0) <=> (lines[3] = TextLine("none"))

\* C5 (as amended): the plugin-status report puts each entry in exactly one
\* of the enabled and disabled groups by its activated flag, its counts line
\* shows the number of enabled entries and the total, the names within each
\* group are in case-insensitive ascending order, and it renders the enabled
\* list under its label always ("- 无" when empty) and the disabled list
\* under its label only when some entry is disabled.
C5_PluginReport ==
    plug.built =>
        LET lines == plug.lines
            nE    == Len(EnabledItems(lines))
            nD    == Len(DisabledItems(lines))
        IN  /\ PluginReportGroups
            /\ (nD > 0) <=> (\E i \in 1..Len(lines) : lines[i].kind = "label_disabled")
            /\ Len(lines) = 2 + (IF nE = 0 THEN 1 ELSE nE) + (IF nD = 0 THEN 0 ELSE 1 + nD)

\* C5 as stated: the report is rendered as two labeled lists.
C5_Original ==
    plug.built =>
        /\ PluginReportGroups
        /\ \E i \in 1..Len(plug.lines) : plug.lines[i].kind = "label_enabled"
        /\ \E i \in 1..Len(plug.lines) : plug.lines[i].kind = "label_disabled"

\* Three plugins, two of them activated and named "B" and "a": the counts
\* line reads 2 / 3 and "a" is listed before "B".
C5_Witness ==
    /\ plug.built
    /\ Len(stars) = 3
    /\ plug.lines[1].a = 2
    /\ plug.lines[1].b = 3
    /\ plug.lines[3].name = <<"a">>
    /\ plug.lines[4].name = <<"B">>
    /\ plug.lines[5].kind = "label_disabled"

\* The CPU-percent query of the handler being run: its reads, and the
\* previous and the current sample of its computation.
FirstSample  == _read_cpu_stat(last.f1)
SecondSample == _read_cpu_stat(last.f2)
WasCold      == ~last.before.some
ReadsSucceeded == FirstSample.status = "ok" /\ (WasCold => SecondSample.status = "ok")
PrevSample == IF WasCold THEN AsSample(FirstSample) ELSE last.before
CurrSample == IF WasCold THEN AsSample(SecondSample) ELSE AsSample(FirstSample)
DeltaTotal == CurrSample.total - PrevSample.total
DeltaIdle  == CurrSample.idle - PrevSample.idle

\* ret is unavailable when d_total <= 0 and 100 * max(0, d_total - d_idle) / d_total otherwise
ReturnsClaimedPercent(ret) ==
    IF DeltaTotal <= 0 THEN ~ret.avail
    ELSE /\ ret.avail
         /\ ret.den > 0
         /\ ret.num * DeltaTotal = 100 * Max(0, DeltaTotal - DeltaIdle) * ret.den

\* C1: a CPU-percent query whose previous and current sample were both read
\* returns unavailable when d_total <= 0 and otherwise exactly
\* 100 * max(0, d_total - d_idle) / d_total; totals (100, 200) and idles
\* (50, 90) give 60.
C1_PercentFormula ==
    (last.cpuDone /\ ReadsSucceeded) =>
        /\ ReturnsClaimedPercent(last.cpu.ret)
        /\ (PrevSample = Sample(100, 50) /\ CurrSample = Sample(200, 90)) =>
               (last.cpu.ret.avail /\ last.cpu.ret.num = 60 * last.cpu.ret.den)

\* A warm query from the stored sample (100, 50) to (200, 90) returned 60.
C1_Witness ==
    /\ last.cpuDone
    /\ ReadsSucceeded
    /\ ~WasCold
    /\ PrevSample = Sample(100, 50)
    /\ CurrSample = Sample(200, 90)
    /\ last.cpu.ret.avail
    /\ last.cpu.ret.num = 60 * last.cpu.ret.den

\* What claim C2 says of every state.
SamplerStateMachine ==
    /\ history.warmed <=> _last_cpu_stat.some
    /\ history.warmed => _last_cpu_stat = history.lastRead
    /\ (last.cpuDone /\ ReadsSucceeded /\ WasCold) =>
           /\ last.cpu.nreads = 2
           /\ last.cpu.slept
           /\ last.cpu.stored
           /\ _last_cpu_stat = AsSample(SecondSample)
           /\ ReturnsClaimedPercent(last.cpu.ret)
    /\ (last.cpuDone /\ ReadsSucceeded /\ ~WasCold) =>
           /\ last.cpu.nreads = 1
           /\ ~last.cpu.slept
           /\ last.cpu.stored
           /\ _last_cpu_stat = AsSample(FirstSample)
           /\ ReturnsClaimedPercent(last.cpu.ret)

\* C2: the CPU sampler is a two-state machine over _last_cpu_stat.  A cold
\* query (whose reads succeed) reads A, sleeps, reads B, stores B, computes
\* from (A, B) and ends warm; a warm one reads C, computes from (stored, C)
\* and stores C; once warm the sampler never returns to cold, and the stored
\* sample is the last sample read by the most recent query that stored one.
C2_SamplerStateMachine ==
    /\ []SamplerStateMachine
    /\ [][_last_cpu_stat.some => _last_cpu_stat'.some]_vars

\* A warm query has replaced the stored sample by a different one.
C2_Witness ==
    /\ last.cpuDone
    /\ ReadsSucceeded
    /\ ~WasCold
    /\ _last_cpu_stat # last.before
    /\ _last_cpu_stat = AsSample(FirstSample)

\* C9: a CPU percentage that is returned lies between 0 and 100.
C9_PercentInRange ==
    (last.cpuDone /\ last.cpu.ret.avail) =>
        /\ 0 <= last.cpu.ret.num
        /\ last.cpu.ret.num <= 100 * last.cpu.ret.den

\* C10: a query in which a counter read fails returns unavailable and leaves
\* the stored sample as it was (a cold sampler stays cold even if its first
\* read succeeded); a query whose reads succeed with d_total <= 0 returns
\* unavailable and has replaced the stored sample.
C10_FailedReadKeepsSample ==
    last.cpuDone =>
        /\ ~ReadsSucceeded =>
               /\ ~last.cpu.ret.avail
               /\ ~last.cpu.stored
               /\ _last_cpu_stat = last.before
        /\ (ReadsSucceeded /\ DeltaTotal <= 0) =>
               /\ ~last.cpu.ret.avail
               /\ last.cpu.stored
               /\ _last_cpu_stat = CurrSample

\* A cold query whose first read succeeded and whose second failed: still cold.
C10_Witness ==
    /\ last.cpuDone
    /\ WasCold
    /\ FirstSample.status = "ok"
    /\ SecondSample.status # "ok"
    /\ last.cpu.slept
    /\ ~_last_cpu_stat.some

\* The server report of the handler being run, once it has finished.
ReportBuilt == last.phase = "done" /\ last.route \in {"server", "all"}
ReportLines == last.responses[1].server
HasLine(kind) == \E i \in 1..Len(ReportLines) : ReportLines[i].kind = kind

PresentationOrder ==
    <<"header", "hostname", "platform", "python", "pid", "uptime", "cpu_count",
      "cpu", "mem", "rss", "load", "disk">>

InPresentationOrder ==
    /\ \A i \in 1..Len(ReportLines) : InSeq(PresentationOrder, ReportLines[i].kind)
    /\ \A i, j \in 1..Len(ReportLines) :
          i < j => IndexIn(PresentationOrder, ReportLines[i].kind)
                   < IndexIn(PresentationOrder, ReportLines[j].kind)
    /\ \A i \in 1..7 : HasLine(PresentationOrder[i])

MemSucceeds ==
    LET m == last.env.mem
    IN  m.readable /\ m.numeric /\ m.has_total /\ m.has_avail /\ m.total_kb # 0
RssSucceeds == last.env.rss.readable /\ last.env.rss.has_vmrss /\ last.env.rss.numeric
LoadSucceeds == last.env.load.has_attr /\ last.env.load.ok
DiskSucceeds == last.env.disk.ok

\* What claim C3 says of every report but the presence of the CPU line.
ReportNeverFails ==
    /\ ~last.raised
    /\ Len(last.responses) = 1
    /\ InPresentationOrder
    /\ HasLine("mem") <=> MemSucceeds
    /\ HasLine("rss") <=> RssSucceeds
    /\ HasLine("load") <=> LoadSucceeds
    /\ HasLine("disk") <=> DiskSucceeds

\* C3 (as amended): for every combination of failing and succeeding metric
\* sources the report is built and answered, the line of each failing source
\* is omitted and the line of every succeeding source is present, in the
\* fixed order -- except that the CPU line is also omitted when both samples
\* were read and the total counter did not advance (d_total <= 0).
C3_ReportNeverFails ==
    ReportBuilt =>
        /\ ReportNeverFails
        /\ HasLine("cpu") <=> (ReadsSucceeded /\ DeltaTotal > 0)

\* C3 as stated: the CPU line is there whenever the counters were read.
C3_Original ==
    ReportBuilt =>
        /\ ReportNeverFails
        /\ HasLine("cpu") <=> ReadsSucceeded

\* A report with every source failing but the filesystem statistics and the
\* (non-advancing) CPU counters: the seven fixed lines and the disk line.
C3_Witness ==
    /\ ReportBuilt
    /\ ReadsSucceeded
    /\ DeltaTotal <= 0
    /\ ~MemSucceeds /\ ~RssSucceeds /\ ~LoadSucceeds /\ DiskSucceeds
    /\ Len(ReportLines) = 8
    /\ ReportLines[8].kind = "disk"

AllWhitespace(s) == \A i \in 1..Len(s) : s[i] \in Whitespace

\* SubSeq(s, i + 1, j) is s without its leading and trailing whitespace
IsTrimAt(s, i, j) ==
    /\ i <= j
    /\ AllWhitespace(SubSeq(s, 1, i))
    /\ AllWhitespace(SubSeq(s, j + 1, Len(s)))
    /\ i < j => (s[i + 1] \notin Whitespace /\ s[j] \notin Whitespace)

SameIgnoringCase(t, w) ==
    Len(t) = Len(w) /\ \A k \in 1..Len(t) : LowerChar(t[k]) = w[k]

\* The trimmed, lower-cased sub-argument is one of words
Selects(args, words) ==
    LET s == IF args.isNone THEN <<>> ELSE args.s
    IN  \E i, j \in 0..Len(s) :
            /\ IsTrimAt(s, i, j)
            /\ \E w \in words : SameIgnoringCase(SubSeq(s, i + 1, j), w)

\* C4: every invocation of serverinfo yields exactly one response, chosen by
\* the trimmed, lower-cased sub-argument: the server report, the plugin
\* report, both in one response, or else the usage string with no report
\* built and the CPU sampler untouched.
C4_ServerinfoDispatch ==
    (last.handler = "serverinfo" /\ last.phase = "done") =>
        /\ Len(last.responses) = 1
        /\ Selects(last.args, ServerSubs) =>
               /\ last.responses[1].kind = "server"
               /\ last.responses[1].server # <<>>
               /\ last.responses[1].plugins = <<>>
        /\ Selects(last.args, PluginSubs) =>
               /\ last.responses[1] = Response("plugins", <<>>, _plugins_info_text(stars))
               /\ ~last.cpuDone
        /\ Selects(last.args, AllSubs) =>
               /\ last.responses[1].kind = "all"
               /\ last.responses[1].server # <<>>
               /\ last.responses[1].plugins = _plugins_info_text(stars)
        /\ ~Selects(last.args, ServerSubs \cup PluginSubs \cup AllSubs) =>
               /\ last.responses = <<Response("usage", <<>>, <<>>)>>
               /\ ~last.cpuDone
               /\ _last_cpu_stat = last.before

\* " INFO\n" is answered by the server report, with the sampler warmed by it.
C4_Witness ==
    /\ last.handler = "serverinfo"
    /\ last.phase = "done"
    /\ last.args = Arg(<<" ", "I", "N", "F", "O", "\n">>)
    /\ last.responses[1].kind = "server"
    /\ last.cpu.stored

\* The text of a message: the first text attribute that is not blank
RECURSIVE MessageText(_)
MessageText(event) ==
    IF event = <<>> THEN <<>>
    ELSE IF Head(event).kind \in {"str", "callable", "object"} /\ ~AllWhitespace(Head(event).s)
    THEN Head(event).s
    ELSE MessageText(Tail(event))

\* text is phrase, possibly after one "/" and with whitespace around either
IsPhraseWithOptionalSlash(text, phrase) ==
    \E i, j \in 0..Len(text) :
        /\ i <= j
        /\ SubSeq(text, i + 1, j) = phrase
        /\ AllWhitespace(SubSeq(text, j + 1, Len(text)))
        /\ \/ AllWhitespace(SubSeq(text, 1, i))
           \/ \E k \in 1..i :
                 /\ text[k] = "/"
                 /\ AllWhitespace(SubSeq(text, 1, k - 1))
                 /\ AllWhitespace(SubSeq(text, k + 1, i))

\* C7 (as amended): the catch-all listener produces a report exactly for a
\* message whose text, with surrounding whitespace and at most one leading
\* "/" removed, is one of the two trigger phrases (the server report for
\* 服务器信息, the plugin-status report for 插件状态); for every other
\* message text it yields no response.
C7_Listener ==
    (last.handler = "plain_cn_commands" /\ last.phase = "done") =>
        LET text == MessageText(last.event)
        IN  /\ IsPhraseWithOptionalSlash(text, S_serverinfo_cn) =>
                   (Len(last.responses) = 1 /\ last.responses[1].kind = "server")
            /\ IsPhraseWithOptionalSlash(text, S_pluginstate_cn) =>
                   last.responses = <<Response("plugins", <<>>, _plugins_info_text(stars))>>
            /\ (~IsPhraseWithOptionalSlash(text, S_serverinfo_cn)
                  /\ ~IsPhraseWithOptionalSlash(text, S_pluginstate_cn)) =>
                   (last.responses = <<>> /\ ~last.cpuDone)

\* C7 as stated: a report only for a text that is exactly a trigger phrase,
\* none for a phrase preceded by "/".
C7_Original ==
    (last.handler = "plain_cn_commands" /\ last.phase = "done") =>
        /\ last.responses # <<>> =>
               _get_event_text(last.event) \in {S_serverinfo_cn, S_pluginstate_cn}
        /\ _get_event_text(last.event) \in {S_serverinfo_cn, S_pluginstate_cn} =>
               Len(last.responses) = 1

\* The message "/服务器信息" is answered by the server report.
C7_Witness ==
    /\ last.handler = "plain_cn_commands"
    /\ last.phase = "done"
    /\ last.event = Message(<<"/">> \o S_serverinfo_cn)
    /\ Len(last.responses) = 1
    /\ last.responses[1].kind = "server"

\* C6: between an invocation's read of _last_cpu_stat in a cold query (the
\* test of line 94) and its replacement of it (line 102), the sleep
\* included, no other invocation reads or writes _last_cpu_stat; and when
\* all invocations have finished the stored sample is the last one written.
C6_ReadThenReplaceAtomic ==
    /\ \A i \in Invocations :
          pc[i] \in {"sleeping", "second"} =>
              /\ accessor = i
              /\ ~_last_cpu_stat.some
              /\ \A j \in Invocations \ {i} : pc[j] \in {"idle", "ready", "yielded", "done"}
    /\ (\A i \in Invocations : pc[i] = "done") =>
          _last_cpu_stat = (IF writes = <<>> THEN NoStat ELSE writes[Len(writes)])

\* An invocation is between its read and its replacement while another one,
\* already received, waits for the loop.
C6_Witness ==
    \E i, j \in Invocations :
        /\ i # j
        /\ pc[i] = "second"
        /\ pc[j] = "ready"

====
